---- MODULE Spec2Model ----
(***************************************************************************)
(* Model of the ticket-similarity engine of backend/nlp_service.py:        *)
(* text cleaning, the index built at import time, and the query            *)
(* get_top_similar_tickets (cosine scores, category boost / penalty,       *)
(* descending sort, threshold filter, top_k cut, rounding).                *)
(*                                                                         *)
(* Text is a sequence of one-character strings.  Scores are fixed-point    *)
(* integers in units of 10^-6 (ONE = 1.0).                                 *)
(***************************************************************************)
EXTENDS Integers, Sequences, FiniteSets, TLC

VARIABLES dataset, argsort_ties, vectorizer, builds, call, memo, threads,
          tickets, resolutions, response

vars == <<dataset, argsort_ties, vectorizer, builds, call, memo, threads,
          tickets, resolutions, response>>

\* the tables of the ticket database and the last HTTP response
db_vars == <<tickets, resolutions, response>>

(***************************************************************************)
(* Characters and strings                                                  *)
(***************************************************************************)
UpperAlpha ==
    <<"A","B","C","D","E","F","G","H","I","J","K","L","M",
      "N","O","P","Q","R","S","T","U","V","W","X","Y","Z">>

LowerAlpha ==
    <<"a","b","c","d","e","f","g","h","i","j","k","l","m",
      "n","o","p","q","r","s","t","u","v","w","x","y","z">>

Range(s) == {s[i] : i \in DOMAIN s}

\* str.lower() on one character
lower_char(c) ==
    IF c \in Range(UpperAlpha)
    THEN LowerAlpha[CHOOSE i \in DOMAIN UpperAlpha : UpperAlpha[i] = c]
    ELSE c

\* str.lower()
lower(text) == [i \in DOMAIN text |-> lower_char(text[i])]

\* the characters the pattern [^a-zA-Z\s] leaves in place
is_alpha_or_space(c) ==
    c \in Range(LowerAlpha) \cup Range(UpperAlpha) \cup {" "}

\* re.sub(r"[^a-zA-Z\s]", "", text): delete, insert nothing
re_sub_non_alpha(text) == SelectSeq(text, is_alpha_or_space)

\* str.split(): maximal runs of non-space characters, in order
RECURSIVE split_from(_, _, _)
split_from(text, i, word) ==
    IF i > Len(text)
    THEN IF word = <<>> THEN <<>> ELSE <<word>>
    ELSE IF text[i] = " "
         THEN IF word = <<>>
              THEN split_from(text, i + 1, <<>>)
              ELSE <<word>> \o split_from(text, i + 1, <<>>)
         ELSE split_from(text, i + 1, Append(word, text[i]))

split(text) == split_from(text, 1, <<>>)

\* " ".join(tokens)
RECURSIVE join(_)
join(tokens) ==
    IF tokens = <<>> THEN <<>>
    ELSE IF Len(tokens) = 1 THEN tokens[1]
    ELSE tokens[1] \o <<" ">> \o join(Tail(tokens))

\* Python's  sub in text  for strings
is_substring(sub, text) ==
    \E k \in 0..(Len(text) - Len(sub)) :
        \A i \in 1..Len(sub) : text[k + i] = sub[i]

(***************************************************************************)
(* Text cleaning: _clean_text                                              *)
(***************************************************************************)
\* members of NLTK's English stop-word list that occur in the modelled texts
_stop_words ==
    { <<"i","s">>,
      <<"a">>,
      <<"i","t">>,
      <<"o","f">>,
      <<"t","o">>,
      <<"w","i","t","h">>,
      <<"o","n">>,
      <<"n","o","t">>,
      <<"t","h","e">>,
      <<"a","n","d">>,
      <<"a","f","t","e","r">> }

\* WordNetLemmatizer.lemmatize (noun): plural -> singular for the words of
\* the modelled texts, every other word unchanged
lemmatize(word) ==
    CASE word = <<"e","r","r","o","r","s">> -> <<"e","r","r","o","r">>
      [] word = <<"i","s","s","u","e","s">> -> <<"i","s","s","u","e">>
      [] word = <<"e","m","a","i","l","s">> -> <<"e","m","a","i","l">>
      [] word = <<"d","o","s">> -> <<"d","o">>
      [] OTHER -> word

keep_token(word) == word \notin _stop_words /\ Len(word) > 2

lemmatize_all(tokens) == [i \in DOMAIN tokens |-> lemmatize(tokens[i])]

\* the cleaning with the lemmatisation done before the stop-word and length
\* filter
_clean_text_lemmatize_first(text) ==
    join(SelectSeq(lemmatize_all(split(re_sub_non_alpha(lower(text)))),
                   keep_token))

_clean_text(text) ==
    join(lemmatize_all(SelectSeq(split(re_sub_non_alpha(lower(text))), keep_token)))

(***************************************************************************)
(* The historical-ticket dataset (the CSV read by pd.read_csv)             *)
(***************************************************************************)
\* an empty CSV cell as pandas reads it (float NaN)
NaN == <<"NaN">>

\* Python's str() on a cell
str(cell) == IF cell = NaN THEN <<"n","a","n">> ELSE cell

\* rows a dataset file may hold; Row2 repeats Row1's description, Row3
\* cleans to the same text as Row1, Row4 has no category
Row1 == [ticket_id |-> 1, description |-> <<"l","o","g","i","n"," ","e","r","r","o","r"," ","8","0","9">>,
         category |-> <<"V","P","N">>, priority |-> "High",
         resolution |-> "Clear cached VPN credentials"]

Row2 == [ticket_id |-> 2, description |-> <<"l","o","g","i","n"," ","e","r","r","o","r"," ","8","0","9">>,
         category |-> <<"L","o","g","i","n">>, priority |-> "Low",
         resolution |-> "Reset password via admin console"]

Row3 == [ticket_id |-> 3, description |-> <<"L","o","g","i","n"," ","e","r","r","o","r","s","!">>,
         category |-> <<"W","i","F","i">>, priority |-> "Medium",
         resolution |-> "Update network drivers"]

Row4 == [ticket_id |-> 4, description |-> <<"e","m","a","i","l"," ","s","y","n","c"," ","i","s","s","u","e">>,
         category |-> NaN, priority |-> "Low",
         resolution |-> "Resync with Exchange server"]

RowPool == {Row1, Row2, Row3, Row4}

\* largest number of rows in a modelled dataset file
MaxRows == 3

IsInjective(f) == \A i, j \in DOMAIN f : i # j => f[i] # f[j]

RowLists ==
    UNION { {f \in [1..n -> RowPool] : IsInjective(f)} : n \in 0..MaxRows }

\* the file at _DATA_PATH: absent, or a table of rows in file order
Datasets ==
    {[exists |-> FALSE, rows |-> <<>>]}
        \cup {[exists |-> TRUE, rows |-> r] : r \in RowLists}

(***************************************************************************)
(* Fixed-point arithmetic                                                  *)
(***************************************************************************)
\* the score 1.0 in score units (10^-6)
ONE == 1000000

RECURSIVE SumOver(_, _)
SumOver(S, f) ==
    IF S = {} THEN 0
    ELSE LET x == CHOOSE y \in S : TRUE
         IN  f[x] + SumOver(S \ {x}, f)

Min(a, b) == IF a <= b THEN a ELSE b

\* least r in lo..hi with r * r >= x
RECURSIVE ceil_sqrt_in(_, _, _)
ceil_sqrt_in(x, lo, hi) ==
    IF lo >= hi THEN lo
    ELSE LET mid == (lo + hi) \div 2
         IN  IF mid * mid >= x
             THEN ceil_sqrt_in(x, lo, mid)
             ELSE ceil_sqrt_in(x, mid + 1, hi)

ceil_sqrt(x) == ceil_sqrt_in(x, 0, 46340)

\* 1000 * ln(a / b), rounded, for the ratios (1 + n) / (1 + df) that occur
ln_milli(a, b) ==
    CASE a = b -> 0
      [] a = 3 /\ b = 2 -> 405
      [] a = 4 /\ b = 2 -> 693
      [] a = 4 /\ b = 3 -> 288
      [] a = 5 /\ b = 2 -> 916
      [] a = 5 /\ b = 3 -> 511
      [] a = 5 /\ b = 4 -> 223
      [] a = 6 /\ b = 2 -> 1099
      [] a = 6 /\ b = 3 -> 693
      [] a = 6 /\ b = 4 -> 405
      [] a = 6 /\ b = 5 -> 182

(***************************************************************************)
(* The index: _TicketVectorizer.__init__                                   *)
(***************************************************************************)
\* TfidfVectorizer(ngram_range=(1, 2), max_df=0.95, min_df=1)
max_df_percent == 95

min_df == 1

\* DataFrame.drop_duplicates(subset=["description"]).reset_index(drop=True):
\* a row stays iff no earlier row has its description; order is kept and the
\* survivors are relabelled 1..n
RECURSIVE drop_duplicates_from(_, _)
drop_duplicates_from(rows, i) ==
    IF i > Len(rows) THEN <<>>
    ELSE IF \E j \in 1..(i - 1) : rows[j].description = rows[i].description
         THEN drop_duplicates_from(rows, i + 1)
         ELSE <<rows[i]>> \o drop_duplicates_from(rows, i + 1)

\* drop_duplicates(keep="last"): a row stays iff no later row has its
\* description
RECURSIVE drop_duplicates_keep_last_from(_, _)
drop_duplicates_keep_last_from(rows, i) ==
    IF i > Len(rows) THEN <<>>
    ELSE IF \E j \in (i + 1)..Len(rows) :
                rows[j].description = rows[i].description
         THEN drop_duplicates_keep_last_from(rows, i + 1)
         ELSE <<rows[i]>> \o drop_duplicates_keep_last_from(rows, i + 1)

drop_duplicates_keep_last(rows) == drop_duplicates_keep_last_from(rows, 1)

drop_duplicates(rows) == drop_duplicates_from(rows, 1)

\* the vectorizer's analyzer on a cleaned text: words of two or more
\* characters, then the unigrams followed by the bigrams of adjacent words
long_enough(word) == Len(word) >= 2

analyzer(cleaned) ==
    LET words == SelectSeq(split(cleaned), long_enough)
        bigrams == [i \in 1..(Len(words) - 1) |->
                        words[i] \o <<" ">> \o words[i + 1]]
    IN  words \o bigrams

term_count(term, terms) == Cardinality({i \in DOMAIN terms : terms[i] = term})

\* smoothed inverse document frequency, in thousandths
idf_milli(n, df) == ln_milli(1 + n, 1 + df) + 1000

\* l2-normalise a weight vector over the vocabulary to thousandths
normalize(w) ==
    LET sq == [t \in DOMAIN w |-> w[t] * w[t]]
        norm == ceil_sqrt(SumOver(DOMAIN w, sq))
    IN  [t \in DOMAIN w |-> IF norm = 0 THEN 0 ELSE (w[t] * 1000) \div norm]

\* the terms kept by the document-frequency limits
fit_vocabulary(doc_terms) ==
    LET n == Len(doc_terms)
        all_terms == UNION {Range(doc_terms[i]) : i \in 1..n}
        df(t) == Cardinality({i \in 1..n : t \in Range(doc_terms[i])})
    IN  {t \in all_terms :
            df(t) >= min_df /\ 100 * df(t) <= max_df_percent * n}

fit_idf(doc_terms, vocabulary) ==
    LET n == Len(doc_terms)
        df(t) == Cardinality({i \in 1..n : t \in Range(doc_terms[i])})
    IN  [t \in vocabulary |-> idf_milli(n, df(t))]

\* one tf-idf row: term count times idf, l2-normalised
tfidf_row(terms, idf) ==
    normalize([t \in DOMAIN idf |-> term_count(t, terms) * idf[t]])

\* CountVectorizer._count_vocab: "empty vocabulary" is raised only while
\* fitting (no fixed vocabulary) and when no term was found
count_vocab_raises_unfixed(found_terms, fixed_vocabulary) ==
    found_terms = {}

count_vocab_raises(found_terms, fixed_vocabulary) ==
    ~fixed_vocabulary /\ found_terms = {}

NoVectorizer ==
    [state |-> "unbuilt", df |-> <<>>, cleaned |-> <<>>,
     idf |-> <<>>, tfidf_matrix |-> <<>>]

\* a fit that accepts a corpus without any term and raises only when
\* pruning removed every term
fit_transform_raises_pruned_only(found_terms, vocabulary) ==
    found_terms # {} /\ vocabulary = {}

\* whether fit_transform raises ValueError: no term found in the corpus
\* (_count_vocab) or none left after the max_df pruning (_limit_features)
fit_transform_raises(found_terms, vocabulary) ==
    count_vocab_raises(found_terms, FALSE) \/ vocabulary = {}

\* the outcome of _TicketVectorizer(filepath): read_csv raises on a missing
\* file, fit_transform raises when no term survives
TicketVectorizer(file) ==
    IF ~file.exists
    THEN [NoVectorizer EXCEPT !.state = "failed"]
    ELSE LET df == drop_duplicates(file.rows)
             cleaned == [i \in DOMAIN df |-> _clean_text(df[i].description)]
             doc_terms == [i \in DOMAIN df |-> analyzer(cleaned[i])]
             found == UNION {Range(doc_terms[i]) : i \in DOMAIN df}
             vocabulary == fit_vocabulary(doc_terms)
             idf == fit_idf(doc_terms, vocabulary)
         IN  IF fit_transform_raises(found, vocabulary)
             THEN [NoVectorizer EXCEPT !.state = "failed"]
             ELSE [state |-> "fitted", df |-> df, cleaned |-> cleaned,
                   idf |-> idf,
                   tfidf_matrix |->
                       [i \in DOMAIN df |-> tfidf_row(doc_terms[i], idf)]]

(***************************************************************************)
(* The query: get_top_similar_tickets                                      *)
(***************************************************************************)
\* _TicketVectorizer.transform_query: clean, count the vocabulary's terms
\* (terms outside the vocabulary are dropped), weigh, normalise
transform_query(v, query) ==
    tfidf_row(analyzer(_clean_text(query)), v.idf)

\* whether vectorizer.transform([cleaned]) raises: the vocabulary is fixed
\* by the fit, the terms found are those of the query that are in it
transform_query_raises(v, query) ==
    count_vocab_raises(Range(analyzer(_clean_text(query))) \cap DOMAIN v.idf,
                       TRUE)

\* cosine_similarity(query_vec, tfidf_matrix).flatten(): one score per
\* document in index order, in score units, at a resolution of 20 units so
\* that the factors 1.25 and 0.90 act exactly
cosine_similarity(query_vec, tfidf_matrix) ==
    [i \in DOMAIN tfidf_matrix |->
        LET prod == [t \in DOMAIN query_vec |->
                        query_vec[t] * tfidf_matrix[i][t]]
        IN  20 * (SumOver(DOMAIN query_vec, prod) \div 20)]

\* line 135 with the category compared as stored, not lowercased
category_in_query_as_stored(row, query_lower) ==
    LET category == str(row.category)
    IN  category # <<>> /\ is_substring(category, query_lower)

\* the test of line 135 for one row
category_in_query(row, query_lower) ==
    LET category == lower(str(row.category))
    IN  category # <<>> /\ is_substring(category, query_lower)

\* a boost that adds a quarter instead of multiplying by 1.25
boost_additive(s) == Min(s + ONE \div 4, ONE)

\* the boost without min(..., 1.0)
boost_uncapped(s) == (s * 125) \div 100

\* similarities[idx] * 1.25 capped at 1.0
boost(s) == Min((s * 125) \div 100, ONE)

\* similarities[idx] * 0.90
penalty(s) == (s * 90) \div 100

\* the loop of lines 133-138 run on a score array kept from the previous
\* call with the same description instead of a fresh one
adjust_kept_array(similarities, df, description) ==
    LET base == IF call.state = "returned" /\ call.description = description
                THEN call.similarities
                ELSE similarities
    IN  [idx \in DOMAIN similarities |->
            IF category_in_query(df[idx], lower(description))
            THEN boost(base[idx])
            ELSE penalty(base[idx])]

\* the loop of lines 133-138 run with the row labels of the file, as
\* iterrows gives them when the index is not reset after the deduplication:
\* the score at a position is adjusted by the file row with that label
adjust_original_labels(similarities, df, description) ==
    [idx \in DOMAIN similarities |->
        IF \A j \in 1..(idx - 1) :
              dataset.rows[j].description # dataset.rows[idx].description
        THEN IF category_in_query(dataset.rows[idx], lower(description))
             THEN boost(similarities[idx])
             ELSE penalty(similarities[idx])
        ELSE similarities[idx]]

\* the loop of lines 133-138 over every row of the index
adjust(similarities, df, description) ==
    [idx \in DOMAIN similarities |->
        IF category_in_query(df[idx], lower(description))
        THEN boost(similarities[idx])
        ELSE penalty(similarities[idx])]

\* ndarray.argsort(): the indices in ascending order of value; the order
\* of equal values is the sort routine's own, fixed for the process
comes_before(a, i, j) ==
    \/ a[i] < a[j]
    \/ a[i] = a[j] /\ (IF argsort_ties = "index" THEN i < j ELSE i > j)

argsort(a) ==
    [k \in DOMAIN a |->
        CHOOSE i \in DOMAIN a :
            Cardinality({j \in DOMAIN a : comes_before(a, j, i)}) = k - 1]

\* the ranking without [::-1]: ascending
reversed_omitted(s) == s

\* [::-1]
reversed(s) == [k \in DOMAIN s |-> s[Len(s) + 1 - k]]

\* round(x, 4): to the nearest 10^-4, halves to the even neighbour
round4(x) ==
    LET q == x \div 100
        r == x % 100
    IN  IF r < 50 THEN 100 * q
        ELSE IF r > 50 THEN 100 * (q + 1)
        ELSE IF q % 2 = 0 THEN 100 * q ELSE 100 * (q + 1)

\* a dict whose resolution is the matched ticket's description
result_entry_description(row, score) ==
    [ticket_id |-> row.ticket_id,
     description |-> str(row.description),
     category |-> str(row.category),
     priority |-> row.priority,
     resolution |-> "description",
     similarity_score |-> round4(score)]

\* the dict appended for one index row
result_entry(row, score) ==
    [ticket_id |-> row.ticket_id,
     description |-> str(row.description),
     category |-> str(row.category),
     priority |-> row.priority,
     resolution |-> row.resolution,
     similarity_score |-> round4(score)]

\* line 145 without its test: nothing is skipped
below_threshold_never(score, threshold) == FALSE

\* line 145 with the comparison turned round
below_threshold_inverted(score, threshold) == score > threshold

\* line 145 skipping a score equal to the threshold too
below_threshold_or_equal(score, threshold) == score <= threshold

\* the test of line 145
below_threshold(score, threshold) == score < threshold

\* the loop of lines 143-161: skip scores below threshold, append, stop
\* when len(results) == top_k
RECURSIVE collect_from(_, _, _, _, _, _, _)
collect_from(sorted_indices, k, results, similarities, df, top_k, threshold) ==
    IF k > Len(sorted_indices) THEN results
    ELSE LET idx == sorted_indices[k]
         IN  IF below_threshold(similarities[idx], threshold)
             THEN collect_from(sorted_indices, k + 1, results,
                               similarities, df, top_k, threshold)
             ELSE LET appended ==
                          Append(results,
                                 result_entry(df[idx], similarities[idx]))
                  IN  IF Len(appended) = top_k
                      THEN appended
                      ELSE collect_from(sorted_indices, k + 1, appended,
                                        similarities, df, top_k, threshold)

collect(sorted_indices, similarities, df, top_k, threshold) ==
    collect_from(sorted_indices, 1, <<>>, similarities, df, top_k, threshold)

\* lines 122-141: the per-call score array, adjusted, and its ranking
score_tickets(v, description) ==
    LET raw == cosine_similarity(transform_query(v, description),
                                 v.tfidf_matrix)
        similarities == adjust(raw, v.df, description)
    IN  [raised |-> transform_query_raises(v, description),
         raw |-> raw,
         similarities |-> similarities,
         sorted_indices |-> reversed(argsort(similarities))]

\* the list one call returns
get_top_similar_tickets(v, description, top_k, threshold) ==
    LET scored == score_tickets(v, description)
    IN  collect(scored.sorted_indices, scored.similarities, v.df,
                top_k, threshold)

(***************************************************************************)
(* Inputs of the modelled calls                                            *)
(***************************************************************************)
\* "VPN login error": names the category VPN, equals Row1 once cleaned
QueryVpnLogin == <<"V","P","N"," ","l","o","g","i","n"," ","e","r","r","o","r">>

\* "is a it of to": stop-words and short tokens only
QueryStopWords == <<"i","s"," ","a"," ","i","t"," ","o","f"," ","t","o">>

\* "VPN email maintenance": names VPN and contains the letters n-a-n
QueryMaintenance == <<"V","P","N"," ","e","m","a","i","l"," ","m","a","i","n","t","e","n","a","n","c","e">>

\* "vpn error code 809": shares one term with Row1 and Row3
QueryErrorCode == <<"v","p","n"," ","e","r","r","o","r"," ","c","o","d","e"," ","8","0","9">>

\* "Email login issues": names no category but Login
QueryEmailLogin == <<"E","m","a","i","l"," ","l","o","g","i","n"," ","i","s","s","u","e","s">>

\* "VPN outage": names the category VPN, has no term of any modelled row
QueryVpnOutage == <<"V", "P", "N", " ", "o", "u", "t", "a", "g", "e">>

\* "VPN login email": shares a term with Row1, Row3, Row4 and DocA
QueryVpnLoginEmail == <<"V","P","N"," ","l","o","g","i","n"," ","e","m","a","i","l">>

Descriptions ==
    {QueryVpnLogin, QueryStopWords, QueryMaintenance, QueryErrorCode,
     QueryEmailLogin, QueryVpnOutage}

\* top_k values passed: negative, zero, one, the default
TopKs == {-1, 0, 1, 3}

\* the default threshold 0.10
DefaultThreshold == 100000

\* thresholds passed: below range, 0, the default, one between two
\* multiples of 10^-4, 1.0, above range
Thresholds == {0 - 500000, 0, DefaultThreshold, 898902, ONE, ONE + 500000}

(***************************************************************************)
(* State machine                                                           *)
(***************************************************************************)
NoCall ==
    [state |-> "idle", description |-> <<>>, top_k |-> 0, threshold |-> 0,
     raw |-> <<>>, similarities |-> <<>>, sorted_indices |-> <<>>,
     results |-> <<>>]

\* a call that stores the lowercased category of line 134 in the shared
\* DataFrame
index_after_query_lowered(v, description) ==
    [v EXCEPT !.df = [idx \in DOMAIN v.df |->
                        [v.df[idx] EXCEPT !.category = lower(str(@))]]]

\* the index a call leaves behind: lines 102-163 assign to locals only
\* (similarities is the fresh array of line 127, df an alias that is read)
index_after_query(v, description) == v

\* the record of one finished call: it returned its list, or an exception
\* left it
Returned(scored, df, description, top_k, threshold) ==
    IF scored.raised
    THEN [NoCall EXCEPT !.state = "raised", !.description = description,
                        !.top_k = top_k, !.threshold = threshold]
    ELSE [state |-> "returned", description |-> description,
          top_k |-> top_k, threshold |-> threshold,
          raw |-> scored.raw, similarities |-> scored.similarities,
          sorted_indices |-> scored.sorted_indices,
          results |-> collect(scored.sorted_indices, scored.similarities, df,
                              top_k, threshold)]

\* a request body as it is sent: the fields named in `provided` are
\* present, the others are left out
NoRequest ==
    [description |-> <<>>, category |-> <<>>, priority |-> "",
     provided |-> {}]

\* the last request and its HTTP response; none answered yet
NoResponse ==
    [op |-> "none", code |-> 0, user_id |-> 0, ticket_id |-> 0,
     helpful |-> FALSE, status |-> "", resolved_date |-> <<>>,
     request |-> NoRequest, suggestions |-> <<>>, listed |-> <<>>]

Init ==
    /\ dataset \in Datasets
    /\ argsort_ties \in {"index", "reverse"}
    /\ vectorizer = NoVectorizer
    /\ builds = 0
    /\ call = NoCall
    /\ memo = [taken |-> NoCall, interleaved |-> FALSE]
    /\ threads = <<>>
    /\ tickets = <<>>
    /\ resolutions = <<>>
    /\ response = NoResponse

\* an import statement that runs the module body whenever it is reached
nlp_service_imported_never(executions) == FALSE

\* `from nlp_service import ...` runs the body of nlp_service on the first
\* import of the process only; ticket_routes.py holds the one import
nlp_service_imported(executions) == executions > 0

\* module import: _vectorizer = _TicketVectorizer(_DATA_PATH)
BuildIndex ==
    /\ ~nlp_service_imported(builds)
    /\ vectorizer' = TicketVectorizer(dataset)
    /\ builds' = builds + 1
    /\ UNCHANGED <<dataset, argsort_ties, call, memo, threads, db_vars>>

\* one call of get_top_similar_tickets; it can run only once the import
\* has succeeded
Query ==
    /\ vectorizer.state = "fitted"
    /\ \E description \in Descriptions :
          \E scored \in {score_tickets(vectorizer, description)} :
              \E top_k \in TopKs, threshold \in Thresholds :
                /\ call' = Returned(scored, vectorizer.df, description,
                                    top_k, threshold)
                /\ vectorizer' = index_after_query(vectorizer, description)
    /\ UNCHANGED <<dataset, argsort_ties, builds, memo, threads, db_vars>>

Next == BuildIndex \/ Query

Spec == Init /\ [][Next]_vars

\* inputs of the calls that are observed for repetition
RepeatDescriptions == {QueryVpnLogin, QueryMaintenance, QueryEmailLogin}

RepeatTopKs == {1, 3}

RepeatThresholds == {0, DefaultThreshold}

SameArguments(a, b) ==
    /\ a.description = b.description
    /\ a.top_k = b.top_k
    /\ a.threshold = b.threshold

\* what an observer may hold after a further call: the call that has just
\* finished, or the call it held, noting whether a call with other
\* arguments has run since
Remembered(next_call) ==
    {[taken |-> next_call, interleaved |-> FALSE]}
        \cup (IF memo.taken.state = "returned"
               THEN {[memo EXCEPT !.interleaved =
                         @ \/ ~SameArguments(memo.taken, next_call)]}
               ELSE {})

\* one call of get_top_similar_tickets, with an observer keeping one
\* earlier call and its returned list
QueryObserved ==
    /\ vectorizer.state = "fitted"
    /\ \E description \in RepeatDescriptions :
          \E scored \in {score_tickets(vectorizer, description)} :
              \E top_k \in RepeatTopKs, threshold \in RepeatThresholds :
                /\ call' = Returned(scored, vectorizer.df, description,
                                    top_k, threshold)
                /\ memo' \in Remembered(call')
                /\ vectorizer' = index_after_query(vectorizer, description)
    /\ UNCHANGED <<dataset, argsort_ties, builds, threads, db_vars>>

NextRepeat == BuildIndex \/ QueryObserved

SpecRepeat == Init /\ [][NextRepeat]_vars

(***************************************************************************)
(* A two-ticket dataset and the calls made on it                           *)
(***************************************************************************)
\* "VPN connection fails after password reset"
DocA ==
    [ticket_id |-> 1,
     description |->
    <<"V","P","N"," ","c","o","n","n","e","c","t","i","o","n"," ","f","a",
      "i","l","s"," ","a","f","t","e","r"," ","p","a","s","s","w","o","r",
      "d"," ","r","e","s","e","t">>,
     category |-> <<"V","P","N">>, priority |-> "High",
     resolution |-> "Reset VPN credentials"]

\* "Printer not responding on network"
DocB ==
    [ticket_id |-> 2,
     description |->
    <<"P","r","i","n","t","e","r"," ","n","o","t"," ","r","e","s","p","o",
      "n","d","i","n","g"," ","o","n"," ","n","e","t","w","o","r","k">>,
     category |-> <<"P","r","i","n","t","e","r">>, priority |-> "Low",
     resolution |-> "Restart print spooler"]

ScenarioDatasets ==
    {[exists |-> TRUE, rows |-> <<DocA, DocB>>],
     [exists |-> TRUE, rows |-> <<DocB, DocA>>]}

\* "VPN login not working, password reset needed"
QueryPasswordReset ==
    <<"V","P","N"," ","l","o","g","i","n"," ","n","o","t"," ","w","o","r",
      "k","i","n","g",","," ","p","a","s","s","w","o","r","d"," ","r","e",
      "s","e","t"," ","n","e","e","d","e","d">>

\* "DOS boot error"
QueryDosBoot ==
    <<"D","O","S"," ","b","o","o","t"," ","e","r","r","o","r">>

\* "809 !?"
QueryNoLetters == <<"8","0","9"," ","!","?">>

QueryEmpty == <<>>

ScenarioDescriptions ==
    {QueryPasswordReset, QueryDosBoot, QueryNoLetters, QueryEmpty,
     QueryStopWords}

ScenarioThresholds == {0, 50000, DefaultThreshold, ONE}

InitScenario ==
    /\ dataset \in ScenarioDatasets
    /\ argsort_ties \in {"index", "reverse"}
    /\ vectorizer = NoVectorizer
    /\ builds = 0
    /\ call = NoCall
    /\ memo = [taken |-> NoCall, interleaved |-> FALSE]
    /\ threads = <<>>
    /\ tickets = <<>>
    /\ resolutions = <<>>
    /\ response = NoResponse

\* one call of get_top_similar_tickets on the two-ticket dataset
QueryScenario ==
    /\ vectorizer.state = "fitted"
    /\ \E description \in ScenarioDescriptions :
          \E scored \in {score_tickets(vectorizer, description)} :
              \E top_k \in TopKs, threshold \in ScenarioThresholds :
                /\ call' = Returned(scored, vectorizer.df, description,
                                    top_k, threshold)
                /\ vectorizer' = index_after_query(vectorizer, description)
    /\ UNCHANGED <<dataset, argsort_ties, builds, memo, threads, db_vars>>

NextScenario == BuildIndex \/ QueryScenario

SpecScenario == InitScenario /\ [][NextScenario]_vars

(***************************************************************************)
(* Calls running in several worker threads                                 *)
(***************************************************************************)
\* the threads of the pool that run the synchronous route handlers
MaxThreads == 2

Threads == 1..MaxThreads

ConcurrentDatasets ==
    {[exists |-> TRUE, rows |-> <<Row1, Row3, Row4>>],
     [exists |-> TRUE, rows |-> <<Row4, Row3, Row2>>]}

ConcurrentDescriptions == {QueryVpnLogin, QueryEmailLogin}

ConcurrentThresholds == {DefaultThreshold}

\* the frame of one call: its arguments, its locals and its position
IdleThread ==
    [pc |-> "idle", description |-> <<>>, top_k |-> 0, threshold |-> 0,
     similarities |-> <<>>, sorted_indices |-> <<>>, results |-> <<>>]

InitConcurrent ==
    /\ dataset \in ConcurrentDatasets
    /\ argsort_ties \in {"index", "reverse"}
    /\ vectorizer = NoVectorizer
    /\ builds = 0
    /\ call = NoCall
    /\ memo = [taken |-> NoCall, interleaved |-> FALSE]
    /\ threads = [t \in Threads |-> IdleThread]
    /\ tickets = <<>>
    /\ resolutions = <<>>
    /\ response = NoResponse

\* a score array kept at module level: the loop works on the array the
\* other thread has just computed
scores_in_loop_shared(ths, self) ==
    IF \E other \in DOMAIN ths : other # self /\ ths[other].pc = "scored"
    THEN LET other == CHOOSE o \in DOMAIN ths :
                          o # self /\ ths[o].pc = "scored"
         IN  ths[other].similarities
    ELSE ths[self].similarities

\* the array the loop of lines 133-138 reads and writes: the local
\* `similarities` of the running call
scores_in_loop(ths, self) == ths[self].similarities

\* a thread enters get_top_similar_tickets
ThreadCall(self) ==
    /\ vectorizer.state = "fitted"
    /\ threads[self].pc = "idle"
    /\ \E description \in ConcurrentDescriptions,
          top_k \in RepeatTopKs, threshold \in ConcurrentThresholds :
            threads' = [threads EXCEPT ![self] =
                          [IdleThread EXCEPT !.pc = "called",
                                             !.description = description,
                                             !.top_k = top_k,
                                             !.threshold = threshold]]
    /\ UNCHANGED <<dataset, argsort_ties, vectorizer, builds, call, memo,
                   db_vars>>

\* lines 123-127: transform the query and compute the cosine scores
ThreadScore(self) ==
    /\ threads[self].pc = "called"
    /\ threads' = [threads EXCEPT
                     ![self].pc = "scored",
                     ![self].similarities =
                        cosine_similarity(
                            transform_query(vectorizer, threads[self].description),
                            vectorizer.tfidf_matrix)]
    /\ UNCHANGED <<dataset, argsort_ties, vectorizer, builds, call, memo,
                   db_vars>>

\* lines 130-138: the category adjustment
ThreadAdjust(self) ==
    /\ threads[self].pc = "scored"
    /\ threads' = [threads EXCEPT
                     ![self].pc = "adjusted",
                     ![self].similarities =
                        adjust(scores_in_loop(threads, self), vectorizer.df,
                               threads[self].description)]
    /\ UNCHANGED <<dataset, argsort_ties, vectorizer, builds, call, memo,
                   db_vars>>

\* line 141: the ranking
ThreadSort(self) ==
    /\ threads[self].pc = "adjusted"
    /\ threads' = [threads EXCEPT
                     ![self].pc = "sorted",
                     ![self].sorted_indices =
                        reversed(argsort(threads[self].similarities))]
    /\ UNCHANGED <<dataset, argsort_ties, vectorizer, builds, call, memo,
                   db_vars>>

\* lines 143-163: collect the results and return them
ThreadCollect(self) ==
    /\ threads[self].pc = "sorted"
    /\ threads' = [threads EXCEPT
                     ![self].pc = "returned",
                     ![self].results =
                        collect(threads[self].sorted_indices,
                                threads[self].similarities, vectorizer.df,
                                threads[self].top_k, threads[self].threshold)]
    /\ UNCHANGED <<dataset, argsort_ties, vectorizer, builds, call, memo,
                   db_vars>>

NextConcurrent ==
    \/ BuildIndex
    \/ \E self \in Threads : ThreadCall(self)
    \/ \E self \in Threads : ThreadScore(self)
    \/ \E self \in Threads : ThreadAdjust(self)
    \/ \E self \in Threads : ThreadSort(self)
    \/ \E self \in Threads : ThreadCollect(self)

SpecConcurrent == InitConcurrent /\ [][NextConcurrent]_vars

(***************************************************************************)
(* The ticket routes and the tables they write                             *)
(***************************************************************************)
\* SQL NULL; a column that may be NULL holds NULL or <<value>>
NULL == <<>>

\* the most tickets the modelled runs create
MaxTickets == 2

\* the most feedback requests a ticket with resolutions receives
MaxVotes == 2

\* ids in the users table, and the user_id values requests carry
RegisteredUsers == {1}

UserIds == {1, 2}

TicketDatasets == {[exists |-> TRUE, rows |-> <<Row1, Row3, Row4, DocA>>]}

\* TicketCreateRequest bodies: one leaves category and priority to the
\* top suggestion, one gives a category, keeps the default priority and
\* matches no historical ticket
TicketBodies ==
    {[description |-> QueryVpnLoginEmail, category |-> <<>>,
      priority |-> "", provided |-> {"priority"}],
     [description |-> QueryStopWords, category |-> <<"W","i","F","i">>,
      priority |-> "Medium", provided |-> {"category"}]}

\* request bodies with and without category and priority, for a
\* description with suggestions and for one without
CreateRequests ==
    {[description |-> d, category |-> <<>>, priority |-> "",
      provided |-> {}] : d \in {QueryVpnLoginEmail, QueryStopWords}}
    \cup
    {[description |-> d, category |-> <<"W","i","F","i">>,
      priority |-> "Low", provided |-> {"category", "priority"}] :
        d \in {QueryVpnLoginEmail, QueryStopWords}}
    \cup
    {[description |-> QueryVpnLoginEmail, category |-> <<>>,
      priority |-> "", provided |-> {"category", "priority"}]}

\* the pydantic model of lines 42-46: a field left out takes its default
TicketCreateRequest(request) ==
    [description |-> request.description,
     category |-> IF "category" \in request.provided
                  THEN request.category ELSE <<>>,
     priority |-> IF "priority" \in request.provided
                  THEN request.priority ELSE "Medium"]

InitTickets ==
    /\ dataset \in TicketDatasets
    /\ argsort_ties \in {"index", "reverse"}
    /\ vectorizer = NoVectorizer
    /\ builds = 0
    /\ call = NoCall
    /\ memo = [taken |-> NoCall, interleaved |-> FALSE]
    /\ threads = <<>>
    /\ tickets = <<>>
    /\ resolutions = <<>>
    /\ response = NoResponse

\* the row of INSERT INTO tickets (lines 93-108); the columns left out take
\* the defaults of the schema
insert_ticket(table, user_id, description, category, priority, top_score) ==
    Append(table,
           [id |-> Len(table) + 1, user_id |-> user_id,
            description |-> description, category |-> category,
            priority |-> priority, status |-> "Open",
            similarity_score |-> top_score, feedback |-> NULL,
            escalation_flag |-> 0])

\* one row of INSERT INTO resolutions
resolution_row(id, ticket_id, resolution_text) ==
    [id |-> id, ticket_id |-> ticket_id, resolution_text |-> resolution_text,
     helpful_count |-> 0, not_helpful_count |-> 0, resolved_date |-> NULL]

\* a loop that stores the top suggestion only
insert_resolutions_top_only(table, ticket_id, suggestions) ==
    table \o [i \in 1..Min(Len(suggestions), 1) |->
                resolution_row(Len(table) + i, ticket_id,
                               suggestions[i].resolution)]

\* the loop of lines 115-123: one row per suggestion, in order
insert_resolutions(table, ticket_id, suggestions) ==
    table \o [i \in 1..Len(suggestions) |->
                resolution_row(Len(table) + i, ticket_id,
                               suggestions[i].resolution)]

\* a handler that does not look the user up
user_exists_unchecked(user_id) == TRUE

\* SELECT id FROM users WHERE id = ? (lines 68-70)
user_exists(user_id) == user_id \in RegisteredUsers

\* POST /tickets with a body out of the given ones, while the table holds
\* fewer than `limit` tickets
create_ticket_of(requests, limit) ==
    /\ vectorizer.state = "fitted"
    /\ \E user_id \in UserIds, request \in requests :
        \E body \in {TicketCreateRequest(request)} :
        IF ~user_exists(user_id)
        THEN /\ response' = [NoResponse EXCEPT !.op = "create_ticket",
                                                !.code = 404,
                                                !.user_id = user_id,
                                                !.request = request]
             /\ UNCHANGED <<tickets, resolutions>>
        ELSE /\ Len(tickets) < limit
             /\ \E suggestions \in
                    {get_top_similar_tickets(vectorizer, body.description,
                                             3, DefaultThreshold)} :
                 LET top_score ==
                         IF suggestions # <<>>
                         THEN suggestions[1].similarity_score ELSE 0
                     detected_category ==
                         IF body.category # <<>> THEN body.category
                         ELSE IF suggestions # <<>>
                              THEN suggestions[1].category ELSE <<>>
                     detected_priority ==
                         IF body.priority # "" THEN body.priority
                         ELSE IF suggestions # <<>>
                              THEN suggestions[1].priority ELSE "Medium"
                     ticket_id == Len(tickets) + 1
                 IN  /\ tickets' = insert_ticket(tickets, user_id,
                                        body.description, detected_category,
                                        detected_priority, top_score)
                     /\ resolutions' = insert_resolutions(resolutions,
                                            ticket_id, suggestions)
                     /\ response' = [NoResponse EXCEPT
                                        !.op = "create_ticket", !.code = 201,
                                        !.user_id = user_id,
                                        !.request = request,
                                        !.ticket_id = ticket_id,
                                        !.suggestions = suggestions]
    /\ UNCHANGED <<dataset, argsort_ties, vectorizer, builds, call, memo,
                   threads>>

\* POST /tickets
create_ticket == create_ticket_of(TicketBodies, MaxTickets)

\* POST /tickets with bodies that leave fields out
create_ticket_defaults == create_ticket_of(CreateRequests, MaxTickets)

\* UPDATE tickets SET ... WHERE id = ? of lines 158-164 and 179-185
update_ticket_feedback_clears_flag(table, ticket_id, helpful) ==
    [i \in DOMAIN table |->
        IF table[i].id # ticket_id THEN table[i]
        ELSE IF helpful
             THEN [table[i] EXCEPT !.feedback = <<1>>, !.status = "Resolved",
                                   !.escalation_flag = 0]
             ELSE [table[i] EXCEPT !.feedback = <<0>>, !.status = "Pending",
                                   !.escalation_flag = 1]]

\* the two UPDATE tickets statements of lines 158-164 and 180-185
update_ticket_feedback(table, ticket_id, helpful) ==
    [i \in DOMAIN table |->
        IF table[i].id # ticket_id THEN table[i]
        ELSE IF helpful
             THEN [table[i] EXCEPT !.feedback = <<1>>, !.status = "Resolved"]
             ELSE [table[i] EXCEPT !.feedback = <<0>>, !.status = "Pending",
                                   !.escalation_flag = 1]]

\* the UPDATE of the resolutions without its WHERE clause
update_resolution_counts_every_row(table, ticket_id, helpful) ==
    [i \in DOMAIN table |->
        IF helpful
        THEN [table[i] EXCEPT !.helpful_count = @ + 1]
        ELSE [table[i] EXCEPT !.not_helpful_count = @ + 1]]

\* UPDATE resolutions SET ... WHERE ticket_id = ? of lines 166-173 and
\* 187-194
update_resolution_counts(table, ticket_id, helpful) ==
    [i \in DOMAIN table |->
        IF table[i].ticket_id # ticket_id THEN table[i]
        ELSE IF helpful
             THEN [table[i] EXCEPT !.helpful_count = @ + 1]
             ELSE [table[i] EXCEPT !.not_helpful_count = @ + 1]]

\* the feedback requests the resolutions of a ticket have counted
votes(table, ticket_id) ==
    IF \E i \in DOMAIN table : table[i].ticket_id = ticket_id
    THEN LET i == CHOOSE k \in DOMAIN table : table[k].ticket_id = ticket_id
         IN  table[i].helpful_count + table[i].not_helpful_count
    ELSE 0

\* POST /tickets/{ticket_id}/feedback
submit_feedback ==
    /\ vectorizer.state = "fitted"
    /\ \E ticket_id \in 1..(Len(tickets) + 1), helpful \in BOOLEAN :
        IF ~\E i \in DOMAIN tickets : tickets[i].id = ticket_id
        THEN /\ response' = [NoResponse EXCEPT !.op = "submit_feedback",
                                                !.code = 404,
                                                !.ticket_id = ticket_id,
                                                !.helpful = helpful]
             /\ UNCHANGED <<tickets, resolutions>>
        ELSE /\ votes(resolutions, ticket_id) < MaxVotes
             /\ tickets' = update_ticket_feedback(tickets, ticket_id, helpful)
             /\ resolutions' = update_resolution_counts(resolutions,
                                                        ticket_id, helpful)
             /\ response' = [NoResponse EXCEPT
                                !.op = "submit_feedback", !.code = 200,
                                !.ticket_id = ticket_id,
                                !.helpful = helpful,
                                !.status = IF helpful THEN "Resolved"
                                                      ELSE "Pending"]
    /\ UNCHANGED <<dataset, argsort_ties, vectorizer, builds, call, memo,
                   threads>>

NextTickets == BuildIndex \/ create_ticket \/ submit_feedback

SpecTickets == InitTickets /\ [][NextTickets]_vars

NextCreate == BuildIndex \/ create_ticket_defaults

SpecCreate == InitTickets /\ [][NextCreate]_vars

(***************************************************************************)
(* The admin routes (admin_routes.py) next to the ticket routes            *)
(***************************************************************************)
\* tickets created and resolutions added by hand in the admin runs
MaxAdminTickets == 1

MaxResolutions == 1

\* the one body of the admin runs: nothing but a description, which has no
\* suggestion
AdminRequests ==
    {[description |-> QueryStopWords, category |-> <<>>, priority |-> "",
      provided |-> {}]}

\* POST /tickets in the admin runs
create_ticket_plain == create_ticket_of(AdminRequests, MaxAdminTickets)

\* SELECT id FROM tickets WHERE id = ?
ticket_exists(table, ticket_id) ==
    \E i \in DOMAIN table : table[i].id = ticket_id

\* the statuses the docstring and the model's comment name
allowed_documented == {"In Progress", "Resolved", "Closed"}

\* the set of line 79
allowed == {"In Progress", "Resolved", "Closed", "Open", "Pending"}

\* the values of body.status sent
StatusInputs == {"In Progress", "Closed", "Open", "Escalated"}

\* UPDATE tickets SET status = ? WHERE id = ? (lines 97-100)
update_status(table, ticket_id, status) ==
    [i \in DOMAIN table |->
        IF table[i].id = ticket_id
        THEN [table[i] EXCEPT !.status = status]
        ELSE table[i]]

\* PUT /admin/tickets/{ticket_id}/status with a status out of the given ones
update_ticket_status_of(statuses) ==
    /\ vectorizer.state = "fitted"
    /\ \E ticket_id \in 1..(Len(tickets) + 1), status \in statuses :
        IF status \notin allowed
        THEN /\ response' = [NoResponse EXCEPT
                                !.op = "update_ticket_status", !.code = 422,
                                !.ticket_id = ticket_id, !.status = status]
             /\ UNCHANGED <<tickets, resolutions>>
        ELSE IF ~ticket_exists(tickets, ticket_id)
        THEN /\ response' = [NoResponse EXCEPT
                                !.op = "update_ticket_status", !.code = 404,
                                !.ticket_id = ticket_id, !.status = status]
             /\ UNCHANGED <<tickets, resolutions>>
        ELSE /\ tickets' = update_status(tickets, ticket_id, status)
             /\ response' = [NoResponse EXCEPT
                                !.op = "update_ticket_status", !.code = 200,
                                !.ticket_id = ticket_id, !.status = status]
             /\ UNCHANGED resolutions
    /\ UNCHANGED <<dataset, argsort_ties, vectorizer, builds, call, memo,
                   threads>>

\* PUT /admin/tickets/{ticket_id}/status
update_ticket_status == update_ticket_status_of(StatusInputs)

\* PUT /admin/tickets/{ticket_id}/status that closes or reopens a ticket
close_or_reopen_ticket == update_ticket_status_of({"Closed", "Open"})

\* datetime.utcnow().isoformat() at the time of the request
utcnow == <<"utcnow">>

\* body.resolved_date: left out (None), empty, or a date
ResolvedDates == {NULL, <<"">>, <<"2024-05-01">>}

\* body.resolved_date or datetime.utcnow().isoformat() (line 129)
resolved_date_or_now(resolved_date) ==
    IF resolved_date = NULL \/ resolved_date = <<"">>
    THEN utcnow
    ELSE resolved_date

\* an UPDATE that resolves open tickets only
mark_resolved_open_only(table, ticket_id) ==
    [i \in DOMAIN table |->
        IF table[i].id = ticket_id /\ table[i].status = "Open"
        THEN [table[i] EXCEPT !.status = "Resolved"]
        ELSE table[i]]

\* UPDATE tickets SET status = 'Resolved' WHERE id = ? (lines 141-144)
mark_resolved(table, ticket_id) == update_status(table, ticket_id, "Resolved")

\* the rows of the resolutions table that carry a resolved_date, which are
\* the ones add_resolution has inserted
manual_resolutions(table) ==
    Cardinality({i \in DOMAIN table : table[i].resolved_date # NULL})

\* POST /admin/resolutions with a resolved_date out of the given ones
add_resolution_of(dates) ==
    /\ vectorizer.state = "fitted"
    /\ \E ticket_id \in 1..(Len(tickets) + 1), resolved_date \in dates :
        IF ~ticket_exists(tickets, ticket_id)
        THEN /\ response' = [NoResponse EXCEPT
                                !.op = "add_resolution", !.code = 404,
                                !.ticket_id = ticket_id,
                                !.resolved_date = resolved_date]
             /\ UNCHANGED <<tickets, resolutions>>
        ELSE /\ manual_resolutions(resolutions) < MaxResolutions
             /\ resolutions' =
                    Append(resolutions,
                           [resolution_row(Len(resolutions) + 1, ticket_id,
                                           "Replaced the network card")
                              EXCEPT !.resolved_date =
                                        resolved_date_or_now(resolved_date)])
             /\ tickets' = mark_resolved(tickets, ticket_id)
             /\ response' = [NoResponse EXCEPT
                                !.op = "add_resolution", !.code = 201,
                                !.ticket_id = ticket_id,
                                !.status = "Resolved",
                                !.resolved_date = resolved_date]
    /\ UNCHANGED <<dataset, argsort_ties, vectorizer, builds, call, memo,
                   threads>>

\* POST /admin/resolutions
add_resolution == add_resolution_of(ResolvedDates)

\* POST /admin/resolutions with a body that has no resolved_date
add_resolution_undated == add_resolution_of({NULL})

\* SELECT * FROM tickets WHERE escalation_flag = 1 ORDER BY created_at DESC
\* (lines 61-63); tickets are created in the order of their ids
escalated_tickets(table) ==
    LET escalated(ticket) == ticket.escalation_flag = 1
    IN  reversed(SelectSeq(table, escalated))

\* GET /admin/tickets/escalated
get_escalated_tickets ==
    /\ vectorizer.state = "fitted"
    /\ response' = [NoResponse EXCEPT
                       !.op = "get_escalated_tickets", !.code = 200,
                       !.listed = escalated_tickets(tickets)]
    /\ UNCHANGED <<dataset, argsort_ties, vectorizer, builds, call, memo,
                   threads, tickets, resolutions>>

NextAdmin ==
    \/ BuildIndex
    \/ create_ticket_plain
    \/ update_ticket_status
    \/ add_resolution

\* the admin runs take the order numpy's argsort gives for short arrays
InitAdmin == InitTickets /\ argsort_ties = "index"

SpecAdmin == InitTickets /\ [][NextAdmin]_vars

\* the four writing handlers and the list of the escalated tickets
NextEscalation ==
    \/ BuildIndex
    \/ create_ticket_plain
    \/ submit_feedback
    \/ close_or_reopen_ticket
    \/ add_resolution_undated
    \/ get_escalated_tickets

SpecEscalation == InitAdmin /\ [][NextEscalation]_vars

(***************************************************************************)
(* Calls on datasets with duplicate rows, tied scores and a missing        *)
(* category                                                                *)
(***************************************************************************)
RankingDatasets ==
    {[exists |-> TRUE, rows |-> <<Row1, Row2, Row3, Row4>>],
     [exists |-> TRUE, rows |-> <<Row3, Row4, Row1>>],
     [exists |-> TRUE, rows |-> <<Row4, Row1, Row3, DocA>>]}

RankingDescriptions ==
    {QueryVpnLogin, QueryEmailLogin, QueryMaintenance, QueryStopWords,
     QueryVpnLoginEmail}

InitRanking ==
    /\ dataset \in RankingDatasets
    /\ argsort_ties \in {"index", "reverse"}
    /\ vectorizer = NoVectorizer
    /\ builds = 0
    /\ call = NoCall
    /\ memo = [taken |-> NoCall, interleaved |-> FALSE]
    /\ threads = <<>>
    /\ tickets = <<>>
    /\ resolutions = <<>>
    /\ response = NoResponse

\* one call of get_top_similar_tickets on one of these datasets
QueryRanking ==
    /\ vectorizer.state = "fitted"
    /\ \E description \in RankingDescriptions :
          \E scored \in {score_tickets(vectorizer, description)} :
              \E top_k \in TopKs, threshold \in Thresholds :
                /\ call' = Returned(scored, vectorizer.df, description,
                                    top_k, threshold)
                /\ vectorizer' = index_after_query(vectorizer, description)
    /\ UNCHANGED <<dataset, argsort_ties, builds, memo, threads, db_vars>>

NextRanking == BuildIndex \/ QueryRanking

SpecRanking == InitRanking /\ [][NextRanking]_vars

(***************************************************************************)
(* Properties                                                              *)
(***************************************************************************)
CallReturned == call.state = "returned"

InRange(top_k, threshold) == top_k >= 0 /\ threshold >= 0 /\ threshold <= ONE

\* the index row a result was built from
RowsOf(entry) ==
    {idx \in DOMAIN vectorizer.df :
        vectorizer.df[idx].ticket_id = entry.ticket_id}

\* C1: for every top_k >= 0 (0 included) and every threshold in [0,1] the
\* returned list is no longer than top_k.
C1_TopKBound ==
    (CallReturned /\ InRange(call.top_k, call.threshold))
        => Len(call.results) <= call.top_k

\* C2 as claimed: every returned similarity_score, as returned (rounded to
\* 4 decimals), is at least the threshold of the call.
C2_RoundedScoreAtLeastThreshold ==
    CallReturned =>
        \A k \in DOMAIN call.results :
            call.results[k].similarity_score >= call.threshold

\* C2 amended: every returned entry comes from a document whose adjusted
\* score before rounding is at least the threshold; the returned score is
\* within half of 10^-4 of it.
C2_AdjustedScoreAtLeastThreshold ==
    CallReturned =>
        \A k \in DOMAIN call.results :
            \E idx \in RowsOf(call.results[k]) :
                /\ call.similarities[idx] >= call.threshold
                /\ call.results[k].similarity_score
                       - call.similarities[idx] \in (0 - 50)..50

\* a returned score that rounding has moved below the threshold it passed
C2_Witness ==
    /\ CallReturned
    /\ \E k \in DOMAIN call.results :
        \E idx \in RowsOf(call.results[k]) :
            /\ call.similarities[idx] >= call.threshold
            /\ call.results[k].similarity_score < call.threshold

\* C3: the returned list is in non-increasing score order, and so is the
\* ranking of the adjusted scores it is cut from.
C3_DescendingOrder ==
    CallReturned =>
        /\ \A i, j \in DOMAIN call.results :
             i < j => call.results[i].similarity_score
                          >= call.results[j].similarity_score
        /\ \A i, j \in DOMAIN call.sorted_indices :
             i < j => call.similarities[call.sorted_indices[i]]
                          >= call.similarities[call.sorted_indices[j]]

\* a returned list of three entries with strictly falling scores
C3_Witness ==
    /\ CallReturned
    /\ Len(call.results) = 3
    /\ call.results[1].similarity_score > call.results[2].similarity_score
    /\ call.results[2].similarity_score > call.results[3].similarity_score

\* C4: with a threshold in [0,1] every returned score lies in [0, 1],
\* boosted or penalised.
C4_ScoreRange ==
    (CallReturned /\ call.threshold >= 0 /\ call.threshold <= ONE) =>
        \A k \in DOMAIN call.results :
            /\ call.results[k].similarity_score >= 0
            /\ call.results[k].similarity_score <= ONE

\* one call returning a boosted score held at the cap 1.0 (1.25 times the
\* raw score exceeds it) next to a penalised one
C4_Witness ==
    /\ CallReturned /\ call.threshold >= 0 /\ call.threshold <= ONE
    /\ \E k, m \in DOMAIN call.results :
        \E i \in RowsOf(call.results[k]), j \in RowsOf(call.results[m]) :
            /\ (call.raw[i] * 125) \div 100 > ONE
            /\ call.results[k].similarity_score = ONE
            /\ call.similarities[j] < call.raw[j]
            /\ call.results[m].similarity_score > 0

\* C5: for the same index, description and top_k, a threshold at least as
\* high never returns more results.
C5_ThresholdMonotone ==
    CallReturned =>
        \A higher \in Thresholds :
            call.threshold <= higher =>
                Len(get_top_similar_tickets(vectorizer, call.description,
                                            call.top_k, higher))
                    <= Len(call.results)

\* a call whose result count strictly drops under a higher threshold
C5_Witness ==
    /\ CallReturned
    /\ call.top_k = 3
    /\ \E higher \in Thresholds :
        /\ call.threshold < higher
        /\ Len(get_top_similar_tickets(vectorizer, call.description,
                                       call.top_k, higher)) > 0
        /\ Len(get_top_similar_tickets(vectorizer, call.description,
                                       call.top_k, higher))
               < Len(call.results)

\* C6: a call with the same description, top_k and threshold as an
\* earlier call on the same index returns the identical list (entries,
\* order, scores), whatever other calls ran in between.
C6_Deterministic ==
    (memo.taken.state = "returned" /\ CallReturned
        /\ SameArguments(memo.taken, call))
            => /\ call.results = memo.taken.results
               /\ call.similarities = memo.taken.similarities
               /\ call.sorted_indices = memo.taken.sorted_indices

\* a repeated call, after a call with other arguments, returning again two
\* or more entries among which two adjusted scores tie
C6_Witness ==
    /\ memo.taken.state = "returned" /\ CallReturned
    /\ SameArguments(memo.taken, call)
    /\ memo.interleaved
    /\ Len(call.results) >= 2
    /\ \E i, j \in DOMAIN call.similarities :
        i # j /\ call.similarities[i] = call.similarities[j]
              /\ call.similarities[i] > 0

\* the row has a category cell and, letter case aside, the raw query text
\* contains it
HasCategory(row) == row.category # NaN /\ row.category # <<>>

CategoryMentioned(row, description) ==
    HasCategory(row) /\ is_substring(lower(row.category), lower(description))

\* C7: every document's adjusted score is min(1.25 * raw, 1.0) when its
\* category is non-empty and occurs in the lowercased query, and
\* 0.90 * raw in every other case.
C7_AdjustmentRule ==
    CallReturned =>
        \A idx \in DOMAIN vectorizer.df :
            call.similarities[idx] =
                IF CategoryMentioned(vectorizer.df[idx], call.description)
                THEN Min((call.raw[idx] * 125) \div 100, ONE)
                ELSE (call.raw[idx] * 90) \div 100

\* two indexed documents with the same raw score, the first one's category
\* mentioned in the query, the second one's present and not mentioned
EqualRawPair(i, j) ==
    /\ call.raw[i] = call.raw[j]
    /\ CategoryMentioned(vectorizer.df[i], call.description)
    /\ HasCategory(vectorizer.df[j])
    /\ ~CategoryMentioned(vectorizer.df[j], call.description)

FirstOccurrences(rows) ==
    {i \in DOMAIN rows :
        \A j \in 1..(i - 1) : rows[j].description # rows[i].description}

\* C9: in the built index no two tickets share a description; the index
\* holds exactly the first row of each description, whole, in file order.
C9_DedupKeepsFirst ==
    vectorizer.state = "fitted" =>
        LET df == vectorizer.df
            first == FirstOccurrences(dataset.rows)
        IN  /\ \A i, j \in DOMAIN df :
                 i # j => df[i].description # df[j].description
            /\ Len(df) = Cardinality(first)
            /\ \A k \in DOMAIN df :
                 \E i \in first :
                     /\ df[k] = dataset.rows[i]
                     /\ Cardinality({m \in first : m < i}) = k - 1

\* an index built from a file in which a description repeats: the later
\* row is gone, a row after it survives
C9_Witness ==
    /\ vectorizer.state = "fitted"
    /\ Len(vectorizer.df) < Len(dataset.rows)
    /\ \E i, j, m \in DOMAIN dataset.rows :
        /\ i < j /\ j < m
        /\ dataset.rows[i].description = dataset.rows[j].description
        /\ dataset.rows[i] # dataset.rows[j]
        /\ vectorizer.df[Len(vectorizer.df)] = dataset.rows[m]

\* C10: a call with top_k < 0 or a threshold outside [0,1] never returns a
\* normal result list ranked with that value: it is rejected, or the value
\* used is brought into range first.
C10_MalformedRejectedOrClamped ==
    CallReturned => InRange(call.top_k, call.threshold)

\* the terms of the cleaned query that are in the fitted vocabulary
SharedTerms(description) ==
    Range(analyzer(_clean_text(description))) \cap DOMAIN vectorizer.idf

C12_NoOverlapNoResult ==
    (CallReturned /\ SharedTerms(call.description) = {}) =>
        /\ \A idx \in DOMAIN vectorizer.df :
             call.raw[idx] = 0 /\ call.similarities[idx] = 0
        /\ call.threshold > 0 => call.results = <<>>

\* a call without shared term, naming an indexed document's category, with
\* a threshold above 0
C12_Witness ==
    /\ CallReturned
    /\ SharedTerms(call.description) = {}
    /\ call.threshold > 0
    /\ call.top_k > 0
    /\ \E idx \in DOMAIN vectorizer.df :
        category_in_query(vectorizer.df[idx], lower(call.description))

\* C13: on the corpus of DocA and DocB the call with "VPN login not
\* working, password reset needed", top_k 1 and threshold 0.05 returns
\* exactly one result, with DocA's resolution and a score above 0.
C13_PasswordResetScenario ==
    (/\ CallReturned
     /\ call.description = QueryPasswordReset
     /\ call.top_k = 1
     /\ call.threshold = 50000) =>
        /\ Len(call.results) = 1
        /\ call.results[1].resolution = DocA.resolution
        /\ call.results[1].similarity_score > 0

\* that call has returned
C13_Witness ==
    /\ CallReturned
    /\ dataset.rows = <<DocA, DocB>>
    /\ call.description = QueryPasswordReset
    /\ call.top_k = 1
    /\ call.threshold = 50000
    /\ call.results # <<>>

\* C18: _clean_text is idempotent: cleaning the cleaned text of a
\* description gives the cleaned text again.
C18_CleanTextIdempotent ==
    call.state # "idle" =>
        _clean_text(_clean_text(call.description))
            = _clean_text(call.description)

\* C14: a call has no effect on the shared index: every step taken once
\* the index is fitted, that is every call in any sequence of calls, leaves
\* the index exactly as the build produced it.
C14_IndexAsBuilt ==
    [][vectorizer.state = "fitted" =>
          /\ vectorizer' = vectorizer
          /\ dataset' = dataset]_vars

\* two or more calls with different arguments have run, the last returning
\* a boosted score
C14_Witness ==
    /\ CallReturned
    /\ memo.taken.state = "returned"
    /\ memo.interleaved
    /\ \E idx \in DOMAIN call.raw :
        call.raw[idx] > 0 /\ call.similarities[idx] > call.raw[idx]

\* C15: the index is built once: the constructor runs at most once, it has
\* run and succeeded before any call is served, and once it has run the
\* index is never rebuilt or changed.
C15_BuiltOnceBeforeQueries ==
    /\ [](builds <= 1)
    /\ [](builds = 0 <=> vectorizer.state = "unbuilt")
    /\ [](call.state # "idle" => builds = 1 /\ vectorizer.state = "fitted")
    /\ [][builds = 1 => builds' = 1 /\ vectorizer' = vectorizer]_vars

\* a call served by the index of the one build
C15_Witness ==
    /\ builds = 1
    /\ vectorizer.state = "fitted"
    /\ CallReturned
    /\ call.top_k = 3

\* C17: when the dataset file is missing, or holds no row after
\* deduplication (a file with zero rows included), the build fails: no index
\* exists and no call is ever served.
C17_EmptyDatasetFailsBuild ==
    (/\ builds > 0
     /\ ~dataset.exists \/ drop_duplicates(dataset.rows) = <<>>) =>
        /\ vectorizer = [NoVectorizer EXCEPT !.state = "failed"]
        /\ call = NoCall

\* the build has run on a file that exists and holds zero rows
C17_Witness ==
    /\ builds = 1
    /\ dataset.exists
    /\ dataset.rows = <<>>
    /\ vectorizer.state = "failed"

\* C16: calls run by concurrent threads, interleaved in any way, each
\* return the list the same call returns when it runs alone.
C16_ConcurrentCallsIndependent ==
    \A t \in DOMAIN threads :
        threads[t].pc = "returned" =>
            threads[t].results =
                get_top_similar_tickets(vectorizer, threads[t].description,
                                        threads[t].top_k,
                                        threads[t].threshold)

\* both threads have returned non-empty lists for different descriptions
C16_Witness ==
    /\ DOMAIN threads = Threads
    /\ \A t \in Threads :
        threads[t].pc = "returned" /\ threads[t].results # <<>>
    /\ threads[1].description # threads[2].description

\* C19: a successful create_ticket appends one ticket with status 'Open'
\* whose similarity_score is the top suggestion's score, or 0.0 without
\* suggestions, and appends one resolutions row per suggestion the query
\* returned (at most 3, in ranked order), each linked to the new ticket,
\* holding the suggestion's resolution text and a NULL resolved_date.
C19_CreateTicketStoresSuggestions ==
    [][(response'.op = "create_ticket" /\ response'.code = 201) =>
          LET id == response'.ticket_id
              suggestions == response'.suggestions
              before == Len(resolutions)
          IN  /\ Len(tickets') = Len(tickets) + 1
              /\ SubSeq(tickets', 1, Len(tickets)) = tickets
              /\ tickets'[Len(tickets')].id = id
              /\ \A i \in DOMAIN tickets : tickets[i].id # id
              /\ tickets'[Len(tickets')].status = "Open"
              /\ suggestions =
                    get_top_similar_tickets(vectorizer,
                        tickets'[Len(tickets')].description, 3,
                        DefaultThreshold)
              /\ Len(suggestions) <= 3
              /\ tickets'[Len(tickets')].similarity_score =
                    (IF suggestions = <<>> THEN 0
                     ELSE suggestions[1].similarity_score)
              /\ Len(resolutions') = before + Len(suggestions)
              /\ SubSeq(resolutions', 1, before) = resolutions
              /\ \A i \in DOMAIN suggestions :
                    /\ resolutions'[before + i].ticket_id = id
                    /\ resolutions'[before + i].resolution_text =
                          suggestions[i].resolution
                    /\ resolutions'[before + i].resolved_date = NULL]_vars

\* the second ticket has just been created with three suggestions, cut
\* from four documents at or above the threshold
C19_Witness ==
    /\ response.op = "create_ticket" /\ response.code = 201
    /\ response.ticket_id = 2
    /\ Len(response.suggestions) = 3
    /\ Len(get_top_similar_tickets(vectorizer, tickets[2].description,
                                   Len(vectorizer.df), DefaultThreshold)) > 3
    /\ Len(resolutions) >= 3
    /\ resolutions[Len(resolutions)].ticket_id = 2

\* the tickets whose id is the given one
TicketsWithId(table, ticket_id) ==
    {i \in DOMAIN table : table[i].id = ticket_id}

\* C20: submit_feedback with helpful = true sets the ticket's status to
\* 'Resolved' and feedback to 1 and adds 1 to helpful_count of the ticket's
\* resolutions; with helpful = false it sets status 'Pending', feedback 0,
\* escalation_flag 1 and adds 1 to not_helpful_count; for a ticket id that
\* does not exist it answers 404 and changes no row.
C20_SubmitFeedbackUpdates ==
    [][response'.op = "submit_feedback" =>
          LET id == response'.ticket_id
              helpful == response'.helpful
          IN  IF TicketsWithId(tickets, id) = {}
              THEN /\ response'.code = 404
                   /\ tickets' = tickets
                   /\ resolutions' = resolutions
              ELSE /\ response'.code = 200
                   /\ DOMAIN tickets' = DOMAIN tickets
                   /\ DOMAIN resolutions' = DOMAIN resolutions
                   /\ \A i \in DOMAIN tickets :
                        IF tickets[i].id # id
                        THEN tickets'[i] = tickets[i]
                        ELSE IF helpful
                             THEN /\ tickets'[i].status = "Resolved"
                                  /\ tickets'[i].feedback = <<1>>
                             ELSE /\ tickets'[i].status = "Pending"
                                  /\ tickets'[i].feedback = <<0>>
                                  /\ tickets'[i].escalation_flag = 1
                   /\ \A i \in DOMAIN resolutions :
                        IF resolutions[i].ticket_id # id
                        THEN resolutions'[i] = resolutions[i]
                        ELSE IF helpful
                             THEN resolutions'[i] =
                                    [resolutions[i] EXCEPT
                                        !.helpful_count = @ + 1]
                             ELSE resolutions'[i] =
                                    [resolutions[i] EXCEPT
                                        !.not_helpful_count = @ + 1]]_vars

\* a ticket with resolutions has been found helpful and then not helpful
\* while another ticket's resolutions have not been voted on
C20_Witness ==
    /\ response.op = "submit_feedback" /\ response.code = 200
    /\ ~response.helpful
    /\ \E i, j \in DOMAIN resolutions :
        /\ resolutions[i].ticket_id = response.ticket_id
        /\ resolutions[i].helpful_count = 1
        /\ resolutions[i].not_helpful_count = 1
        /\ resolutions[j].ticket_id # response.ticket_id
        /\ resolutions[j].helpful_count = 0
        /\ resolutions[j].not_helpful_count = 0
    /\ \E i \in DOMAIN tickets :
        /\ tickets[i].id = response.ticket_id
        /\ tickets[i].status = "Pending"

\* the ranked indices whose adjusted score is not below the threshold
EligibleIndices ==
    LET Eligible(idx) == call.similarities[idx] >= call.threshold
    IN  SelectSeq(call.sorted_indices, Eligible)

\* C23: for top_k >= 1 the result is exactly the first min(top_k, m)
\* entries of the ranked list of the m documents whose adjusted score is not
\* strictly below the threshold; a score equal to the threshold is eligible
\* and no omitted document has a higher adjusted score than a returned one.
C23_FirstTopKEligible ==
    (CallReturned /\ call.top_k >= 1) =>
        LET eligible == EligibleIndices
            n == Min(call.top_k, Len(eligible))
        IN  /\ Len(call.results) = n
            /\ \A k \in 1..n :
                 call.results[k] =
                    result_entry(vectorizer.df[eligible[k]],
                                 call.similarities[eligible[k]])
            /\ \A idx \in DOMAIN vectorizer.df :
                 (\A k \in 1..n : eligible[k] # idx) =>
                    \A k \in 1..n :
                        call.similarities[idx]
                            <= call.similarities[eligible[k]]

\* a call with top_k 3 that had four eligible documents and returned
\* three: two with scores above the threshold and one whose adjusted score
\* equals it
C23_Witness ==
    /\ CallReturned
    /\ call.top_k = 3
    /\ Len(EligibleIndices) > 3
    /\ Len(call.results) = 3
    /\ call.similarities[EligibleIndices[2]] > call.threshold
    /\ call.similarities[EligibleIndices[3]] = call.threshold

\* C24: documents with equal adjusted scores stand in the ranking, and so
\* in the result, in index order, the lower index first.
C24_TiesInIndexOrder ==
    CallReturned =>
        \A k, l \in DOMAIN call.sorted_indices :
            (/\ k < l
             /\ call.similarities[call.sorted_indices[k]]
                    = call.similarities[call.sorted_indices[l]])
                => call.sorted_indices[k] < call.sorted_indices[l]

\* C25: a document whose category is empty or missing is never boosted: its
\* adjusted score is 0.90 times its raw score for every query.
C25_MissingCategoryNeverBoosted ==
    CallReturned =>
        \A idx \in DOMAIN vectorizer.df :
            ~HasCategory(vectorizer.df[idx]) =>
                call.similarities[idx] = penalty(call.raw[idx])

\* the raw score of the document at an index position, computed from that
\* position's description alone
RawScoreOf(idx) ==
    cosine_similarity(
        transform_query(vectorizer, call.description),
        <<tfidf_row(analyzer(_clean_text(vectorizer.df[idx].description)),
                    vectorizer.idf)>>)[1]

\* C29: every returned entry carries the ticket_id, description, category,
\* priority and resolution of one deduplicated ticket, its score is that
\* ticket's own document score, and the boost or penalty in it was decided
\* by that ticket's category.
C29_ScoreRecordAligned ==
    CallReturned =>
        /\ vectorizer.df = drop_duplicates(dataset.rows)
        /\ \A k \in DOMAIN call.results :
             \E idx \in DOMAIN vectorizer.df :
                /\ call.results[k] =
                      result_entry(vectorizer.df[idx], call.similarities[idx])
                /\ call.raw[idx] = RawScoreOf(idx)
                /\ call.similarities[idx] =
                      (IF category_in_query(vectorizer.df[idx],
                                            lower(call.description))
                       THEN boost(call.raw[idx])
                       ELSE penalty(call.raw[idx]))

\* a call on an index built from a file with a duplicate row in the middle
\* returned the rows after it with positive scores, one of them boosted
C29_Witness ==
    /\ CallReturned
    /\ Len(vectorizer.df) < Len(dataset.rows)
    /\ Len(call.results) = 3
    /\ \A k \in DOMAIN call.results : call.results[k].similarity_score > 0
    /\ \E idx \in DOMAIN call.raw : call.similarities[idx] > call.raw[idx]

\* C22: the cleaned text is obtained by lowercasing, deleting every
\* character that is not an ASCII letter or whitespace without putting a
\* space in its place, splitting on whitespace, dropping stop-words and
\* tokens of length <= 2, lemmatising each remaining token and joining with
\* single spaces in order; the index build and the query both use it.
C22_NormalizerOrder ==
    call.state # "idle" =>
        LET text == call.description
            lowered == [i \in DOMAIN text |-> lower_char(text[i])]
            IsKept(i) == is_alpha_or_space(lowered[i])
            positions == SelectSeq([i \in DOMAIN text |-> i], IsKept)
            letters == [k \in DOMAIN positions |-> lowered[positions[k]]]
            NotDropped(word) == word \notin _stop_words /\ ~(Len(word) <= 2)
            kept == SelectSeq(split(letters), NotDropped)
            lemmas == [k \in DOMAIN kept |-> lemmatize(kept[k])]
        IN  /\ _clean_text(text) = join(lemmas)
            /\ \A idx \in DOMAIN vectorizer.df :
                 vectorizer.cleaned[idx]
                    = _clean_text(vectorizer.df[idx].description)
            /\ call.state = "returned" =>
                 call.raw =
                    cosine_similarity(
                        tfidf_row(analyzer(_clean_text(text)), vectorizer.idf),
                        vectorizer.tfidf_matrix)

\* a call has returned for a description with capitals, a comma and a
\* stop-word, matching an indexed document whose description lost a
\* stop-word
C22_Witness ==
    /\ CallReturned
    /\ call.description = QueryPasswordReset
    /\ Len(_clean_text(call.description)) < Len(call.description)
    /\ \E idx \in DOMAIN call.raw :
        /\ call.raw[idx] > 0
        /\ Len(vectorizer.cleaned[idx])
              < Len(vectorizer.df[idx].description)

\* the ticket a successful create_ticket has just stored
NewTicket(table) == table[Len(table)]

\* C26: a created ticket stores the category and the priority of the
\* request when the request provides them; when the request leaves one out
\* it stores that of the top suggestion, or an empty category and 'Medium'
\* when there is no suggestion.
C26_CategoryPriorityDefaults ==
    [][(response'.op = "create_ticket" /\ response'.code = 201) =>
          LET request == response'.request
              suggestions == response'.suggestions
              ticket == NewTicket(tickets')
          IN  /\ ("category" \in request.provided /\ request.category # <<>>)
                    => ticket.category = request.category
              /\ ("priority" \in request.provided /\ request.priority # "")
                    => ticket.priority = request.priority
              /\ "category" \notin request.provided =>
                    ticket.category = (IF suggestions # <<>>
                                       THEN suggestions[1].category
                                       ELSE <<>>)
              /\ "priority" \notin request.provided =>
                    ticket.priority = (IF suggestions # <<>>
                                       THEN suggestions[1].priority
                                       ELSE "Medium")]_vars

\* C27: create_ticket with a user_id that is not in the users table answers
\* 404 and leaves the tickets, the resolutions and the index unchanged.
C27_UnknownUserChangesNothing ==
    [][(response'.op = "create_ticket"
            /\ response'.user_id \notin RegisteredUsers) =>
          /\ response'.code = 404
          /\ tickets' = tickets
          /\ resolutions' = resolutions
          /\ vectorizer' = vectorizer]_vars

\* a request of an unknown user has been answered 404 while the tables
\* hold a ticket with its resolutions
C27_Witness ==
    /\ response.op = "create_ticket"
    /\ response.code = 404
    /\ response.user_id \notin RegisteredUsers
    /\ Len(tickets) >= 1
    /\ Len(resolutions) >= 1

\* C21: update_ticket_status takes 'In Progress', 'Resolved' and 'Closed'
\* only: any other status is answered 422 and changes no ticket, and one of
\* the three for a ticket id that does not exist is answered 404 and changes
\* no ticket.
C21_OnlyThreeStatusesAccepted ==
    [][response'.op = "update_ticket_status" =>
          LET status == response'.status
              ticket_id == response'.ticket_id
          IN  IF status \notin allowed_documented
              THEN response'.code = 422 /\ tickets' = tickets
              ELSE IF ~ticket_exists(tickets, ticket_id)
              THEN response'.code = 404 /\ tickets' = tickets
              ELSE /\ response'.code = 200
                   /\ tickets' = update_status(tickets, ticket_id,
                                               status)]_vars

\* C28: add_resolution for an existing ticket appends exactly one row to
\* the resolutions, for that ticket and dated with the given date or with
\* the current time when none is given, and leaves the ticket 'Resolved'
\* whatever its status was, touching nothing else; for a ticket id that
\* does not exist it answers 404 and inserts nothing.
C28_AddResolutionResolves ==
    [][response'.op = "add_resolution" =>
          LET ticket_id == response'.ticket_id
              given == response'.resolved_date
          IN  IF ticket_exists(tickets, ticket_id)
              THEN /\ response'.code = 201
                   /\ Len(resolutions') = Len(resolutions) + 1
                   /\ SubSeq(resolutions', 1, Len(resolutions)) = resolutions
                   /\ resolutions'[Len(resolutions')].ticket_id = ticket_id
                   /\ resolutions'[Len(resolutions')].resolved_date =
                        (IF given \in {NULL, <<"">>} THEN utcnow ELSE given)
                   /\ DOMAIN tickets' = DOMAIN tickets
                   /\ \A i \in DOMAIN tickets :
                        tickets'[i] =
                            IF tickets[i].id = ticket_id
                            THEN [tickets[i] EXCEPT !.status = "Resolved"]
                            ELSE tickets[i]
              ELSE /\ response'.code = 404
                   /\ resolutions' = resolutions
                   /\ tickets' = tickets]_vars

\* a resolution with a date of its own has been added to a ticket, which
\* is 'Resolved' now
C28_Witness ==
    /\ response.op = "add_resolution"
    /\ response.code = 201
    /\ response.resolved_date = <<"2024-05-01">>
    /\ \E i \in DOMAIN tickets :
        /\ tickets[i].id = response.ticket_id
        /\ tickets[i].status = "Resolved"
    /\ resolutions[Len(resolutions)].resolved_date = <<"2024-05-01">>

\* C30: no request takes the escalation_flag of a ticket from 1 back to 0,
\* and get_escalated_tickets lists every ticket whose flag is 1, whatever
\* its status.
C30_EscalationFlagNeverCleared ==
    [][/\ \A i \in DOMAIN tickets :
            tickets[i].escalation_flag = 1 =>
                /\ i \in DOMAIN tickets'
                /\ tickets'[i].id = tickets[i].id
                /\ tickets'[i].escalation_flag = 1
       /\ response'.op = "get_escalated_tickets" =>
            \A i \in DOMAIN tickets' :
                tickets'[i].escalation_flag = 1 =>
                    \E k \in DOMAIN response'.listed :
                        response'.listed[k] = tickets'[i]]_vars

\* the list of escalated tickets holds a ticket that positive feedback came
\* for afterwards and that an admin has closed
C30_Witness ==
    /\ response.op = "get_escalated_tickets"
    /\ \E k \in DOMAIN response.listed :
        /\ response.listed[k].status = "Closed"
        /\ response.listed[k].feedback = <<1>>
        /\ response.listed[k].escalation_flag = 1

====
